---- MODULE Spec2Model ----
(***************************************************************************)
(* Voting and match-detection engine of the would-watch backend.           *)
(*                                                                         *)
(* The durable store (PostgreSQL) is the only shared mutable state.  Every *)
(* repository method issues exactly one SQL statement; a statement is one  *)
(* atomic step.  The HTTP handler VoteHandler.CastVote issues three        *)
(* statements in a row, outside any transaction, so other requests may     *)
(* interleave between them.                                                *)
(*                                                                         *)
(* UUIDs are modelled as small naturals.  Id 0 is a well-formed UUID that  *)
(* references no row (no profile, no media item).  Timestamps are values   *)
(* of a logical clock.  Only the columns the modelled statements read or   *)
(* write are kept.                                                         *)
(***************************************************************************)
EXTENDS Integers, Sequences, FiniteSets, TLC

\* ------------------------------------------------------------------ bounds
NumSessions == 2
NumUsers == 3
NumMedia == 2
MaxClock == 1
MaxCasts == 3
NumReqs == 2
NumNew == 2
NumTitles == 2
NumMetas == 2
NumRecs == 2
MaxCands == 2
MaxMembers == 2

\* ------------------------------------------------------- program constants
\* vote_repository.go:63  `return count >= 2`
MatchThreshold == 2

SessionIds == 1..NumSessions
\* profiles rows exist for 1..NumUsers; 0 is a user id without a profile
Profiles == 1..NumUsers
UserIds == 0..NumUsers
\* auth.users: trigger on_auth_user_created inserts a profile for every signup
AuthUsers == Profiles
\* media_items rows exist for 1..NumMedia; 0 is a media id without a row
MediaIds == 0..NumMedia

\* CREATE TYPE vote_type AS ENUM ('yes', 'no', 'maybe')
vote_type == {"yes", "no", "maybe"}
\* strings a caller may pass as the vote
VoteInputs == vote_type \cup {"invalid"}

Triples == SessionIds \X UserIds \X MediaIds

\* slots of in-flight cast-vote requests, and the ids the requests are issued
\* with: sessions that may or may not exist yet, users with and without a
\* profile, media ids with and without a row
Reqs == 1..NumReqs
ReqSessions == 1..(NumSessions - 1)
ReqUsers == 0..(NumUsers - 1)
ReqMedia == 0..(NumMedia - 1)

VARIABLES
    watch_sessions,   \* table watch_sessions: id -> status ('active', 'completed'), or "absent"
    media_items,      \* table media_items: set of rows
    session_votes,    \* table session_votes: set of rows
    now,              \* the store's clock, NOW()
    last,             \* per triple, the value of the latest successful CastVote, or "none"
    prev,             \* per triple, the value of the successful CastVote before that, or "none"
    ncast,            \* total number of successful CastVote calls
    ret,              \* outcome of the most recent write statement: "ok" or the error
    reqs,             \* per slot, a cast-vote HTTP request and its progress
    rec,              \* per slot, a recommendation request and its progress
    cache_ret,        \* the most recent CacheMovie call: its movie and what it returned
    room_participants \* table room_participants: set of <<room_id, user_id>>

vars == <<watch_sessions, media_items, session_votes, now, last, prev, ncast, ret, reqs,
          rec, cache_ret, room_participants>>

\* ---------------------------------------------------------------- helpers
\* collation rank of the title of the seeded media item i; items 1 and 2 are
\* seeded so that title order is the reverse of id order
TitleOf(i) == IF i <= 2 THEN 3 - i ELSE i

SeedMedia ==
    { [id |-> i, tmdb_id |-> 100 + i, media_type |-> "movie", title |-> TitleOf(i),
       metadata |-> 0]
        : i \in 1..NumMedia }

VoteRow(s, u, m, v, t) ==
    [session_id |-> s, user_id |-> u, media_id |-> m, vote |-> v,
     created_at |-> t, updated_at |-> t]

\* rows of a table `rows` with the key (session_id, user_id, media_id)
RowsOf(rows, s, u, m) ==
    { r \in rows : r.session_id = s /\ r.user_id = u /\ r.media_id = m }

\* variant: the vote column is free text, no enum cast
CastVoteResultNoEnum(s, u, m, v) ==
    IF \/ watch_sessions[s] = "absent"
       \/ u \notin Profiles
       \/ m \notin { r.id : r \in media_items }
    THEN "fk_violation"
    ELSE "ok"

\* ------------------------------------------------- VoteRepository.CastVote
\* The statement's constraints.  The vote string is cast to the enum
\* vote_type when the parameters are bound, before any row is touched; then
\* the three foreign keys of session_votes are checked.
CastVoteResult(s, u, m, v) ==
    IF v \notin vote_type THEN "invalid_enum"
    ELSE IF \/ watch_sessions[s] = "absent"
            \/ u \notin Profiles
            \/ m \notin { r.id : r \in media_items }
         THEN "fk_violation"
    ELSE "ok"

\* variant: ON CONFLICT ... DO NOTHING (the first vote of a triple is kept)
UpsertDoNothing(rows, s, u, m, v, t) ==
    IF RowsOf(rows, s, u, m) = {} THEN rows \cup { VoteRow(s, u, m, v, t) } ELSE rows

\* variant: a plain INSERT on a table without the unique constraint
UpsertInsertOnly(rows, s, u, m, v, t) == rows \cup { VoteRow(s, u, m, v, t) }

\* variant: the conflict target is (session_id, media_id), without the user
UpsertPairKey(rows, s, u, m, v, t) ==
    LET conflict == { r \in rows : r.session_id = s /\ r.media_id = m } IN
    IF conflict = {}
    THEN rows \cup { VoteRow(s, u, m, v, t) }
    ELSE (rows \ conflict) \cup { VoteRow(s, u, m, v, t) }

\* variant: without the trigger, updated_at keeps the time of the first cast
UpsertNoTrigger(rows, s, u, m, v, t) ==
    LET conflict == RowsOf(rows, s, u, m) IN
    IF conflict = {}
    THEN rows \cup { VoteRow(s, u, m, v, t) }
    ELSE (rows \ conflict) \cup
         { [r EXCEPT !.vote = v, !.created_at = t] : r \in conflict }

\* INSERT ... ON CONFLICT (session_id, user_id, media_id)
\* DO UPDATE SET vote = EXCLUDED.vote, created_at = NOW()
\* with trigger update_session_votes_updated_at (BEFORE UPDATE: updated_at = NOW())
Upsert(rows, s, u, m, v, t) ==
    LET conflict == RowsOf(rows, s, u, m) IN
    IF conflict = {}
    THEN rows \cup { VoteRow(s, u, m, v, t) }
    ELSE (rows \ conflict) \cup
         { [r EXCEPT !.vote = v, !.created_at = t, !.updated_at = t] : r \in conflict }

\* the statement as executed by the store: outcome in ret, bookkeeping of the
\* successful calls in last / prev / ncast
CastVoteStmt(s, u, m, v) ==
    IF CastVoteResult(s, u, m, v) = "ok"
    THEN /\ session_votes' = Upsert(session_votes, s, u, m, v, now)
         /\ last' = [last EXCEPT ![<<s, u, m>>] = v]
         /\ prev' = [prev EXCEPT ![<<s, u, m>>] = last[<<s, u, m>>]]
         /\ ncast' = ncast + 1
         /\ ret' = "ok"
    ELSE /\ UNCHANGED <<session_votes, last, prev, ncast>>
         /\ ret' = CastVoteResult(s, u, m, v)

\* a direct call of the repository method (as the repository tests do)
CastVote(s, u, m, v) ==
    /\ ncast < MaxCasts
    /\ CastVoteStmt(s, u, m, v)
    /\ UNCHANGED <<watch_sessions, media_items, now, reqs,
                   rec, cache_ret, room_participants>>

\* variant: "maybe" counted as a yes (vote <> 'no')
CountYesOrMaybe(rows, s, m) ==
    Cardinality({ r \in rows : r.session_id = s /\ r.media_id = m /\ r.vote # "no" })

\* variant: a majority of the votes cast on the item instead of a fixed count
CheckMatchMajority(rows, s, m) ==
    2 * Cardinality({ r \in rows : r.session_id = s /\ r.media_id = m /\ r.vote = "yes" })
      > Cardinality({ r \in rows : r.session_id = s /\ r.media_id = m })

\* variant: the count is taken over every session
CountYesAnySession(rows, s, m) ==
    Cardinality({ r \in rows : r.media_id = m /\ r.vote = "yes" })

\* ----------------------------------------------- VoteRepository.CheckMatch
\* SELECT COUNT(*) FROM session_votes
\* WHERE session_id = $1 AND media_id = $2 AND vote = 'yes'
CountYes(rows, s, m) ==
    Cardinality({ r \in rows : r.session_id = s /\ r.media_id = m /\ r.vote = "yes" })

\* return count >= 2
CheckMatchOn(rows, s, m) == CountYes(rows, s, m) >= MatchThreshold

CheckMatch(s, m) == CheckMatchOn(session_votes, s, m)

\* variant: HAVING COUNT(sv.user_id) > 2
MatchedItemsStrict(rows, s) ==
    { mi \in media_items :
        Cardinality({ sv \in rows : /\ mi.id = sv.media_id
                                    /\ sv.session_id = s
                                    /\ sv.vote = "yes" }) > MatchThreshold }

\* ------------------------------------- VoteRepository.GetMatchesForSession
\* media_items m INNER JOIN session_votes sv ON m.id = sv.media_id
\* WHERE sv.session_id = $1 AND sv.vote = 'yes'
\* GROUP BY m.* HAVING COUNT(sv.user_id) >= 2
MatchedItems(rows, s) ==
    { mi \in media_items :
        Cardinality({ sv \in rows : /\ mi.id = sv.media_id
                                    /\ sv.session_id = s
                                    /\ sv.vote = "yes" }) >= MatchThreshold }

\* ORDER BY m.title (the order among equal titles is the store's choice)
RECURSIVE OrderByTitle(_)
OrderByTitle(items) ==
    IF items = {} THEN <<>>
    ELSE LET first == CHOOSE x \in items : \A y \in items : x.title <= y.title
         IN  <<first>> \o OrderByTitle(items \ {first})

\* variant: ORDER BY m.title DESC
GetMatchesDesc(rows, s) ==
    LET l == OrderByTitle(MatchedItems(rows, s))
    IN  [i \in 1..Len(l) |-> l[Len(l) + 1 - i]]

GetMatchesOn(rows, s) == OrderByTitle(MatchedItems(rows, s))

GetMatchesForSession(s) == GetMatchesOn(session_votes, s)

\* ------------------------------------------- VoteRepository.GetLikedMovies
\* ListLikedTitles: the distinct titles of the media items with at least one
\* yes vote in the session, in alphabetical order
RECURSIVE OrderTitles(_)
OrderTitles(titles) ==
    IF titles = {} THEN <<>>
    ELSE LET first == CHOOSE x \in titles : \A y \in titles : x <= y
         IN  <<first>> \o OrderTitles(titles \ {first})

\* variant: the titles of the items with a vote of any value
GetLikedMoviesAnyVote(rows, s) ==
    OrderTitles({ mi.title : mi \in { x \in media_items :
        \E sv \in rows : sv.media_id = x.id /\ sv.session_id = s } })

GetLikedMoviesOn(rows, s) ==
    OrderTitles({ mi.title : mi \in { x \in media_items :
        \E sv \in rows : sv.media_id = x.id /\ sv.session_id = s /\ sv.vote = "yes" } })

GetLikedMovies(s) == GetLikedMoviesOn(session_votes, s)

\* a Go slice value: nil, or a slice holding the elements `items`
NilSlice == [isnil |-> TRUE, items |-> <<>>]

SliceOf(l) == [isnil |-> FALSE, items |-> l]

\* var matches []MediaItem ; matches = append(matches, item) per row:
\* the slice stays nil when the query returns no row
ScanMatches(l) == IF l = <<>> THEN NilSlice ELSE SliceOf(l)

\* encoding/json writes a nil slice as null and an empty slice as []
JSONIsNull(slice) == slice.isnil

\* variant: the repository result is put in the response as it is
GetMatchesNoNilCheck(s) ==
    LET matches == ScanMatches(GetMatchesForSession(s))
    IN  [status |-> 200, matches |-> matches, count |-> Len(matches.items)]

\* ---------------------------------------------------- MatchHandler.GetMatches
\* a request with a well-formed session id: the response body
\* MatchesResponse{Matches: matches, Count: len(matches)}
GetMatches(s) ==
    LET found   == ScanMatches(GetMatchesForSession(s))
        matches == IF found.isnil THEN SliceOf(<<>>) ELSE found
    IN  [status |-> 200, matches |-> matches, count |-> Len(matches.items)]

\* ------------------------------------------------------- SessionRepository
\* INSERT INTO watch_sessions (creator_id, status) VALUES ($1, 'active')
\* id defaults to gen_random_uuid(): any id not in use; creator_id is a foreign key
CreateSession(creator) ==
    /\ IF creator \in AuthUsers
       THEN /\ \E id \in SessionIds :
                 /\ watch_sessions[id] = "absent"
                 /\ watch_sessions' = [watch_sessions EXCEPT ![id] = "active"]
            /\ ret' = "ok"
       ELSE /\ UNCHANGED watch_sessions
            /\ ret' = "fk_violation"
    /\ UNCHANGED <<media_items, session_votes, now, last, prev, ncast, reqs,
                   rec, cache_ret, room_participants>>

\* SELECT ... FROM watch_sessions WHERE id = $1 ; nil when there is no row
GetSessionByID(id) == watch_sessions[id]

\* variant: the update toggles the status
CompletedStatusToggle(old) == IF old = "completed" THEN "active" ELSE "completed"

\* UPDATE watch_sessions SET status = 'completed' WHERE id = $1
CompletedStatus(old) == "completed"

\* what the method returns for the outcome of QueryRowContext(...).Scan:
\* sql.ErrNoRows is turned into (nil, nil), any other error is passed on
ScanSession(outcome, row) ==
    IF outcome = "no_rows" THEN [session |-> "nil", err |-> "nil"]
    ELSE IF outcome = "ok" THEN [session |-> row, err |-> "nil"]
    ELSE [session |-> "nil", err |-> outcome]

\* variant: the statement creates the row it does not find
CompleteSessionUpsert(id) ==
    /\ watch_sessions' = [watch_sessions EXCEPT ![id] = CompletedStatus(@)]
    /\ ret' = "ok"
    /\ UNCHANGED <<media_items, session_votes, now, last, prev, ncast, reqs,
                   rec, cache_ret, room_participants>>

\* UPDATE ... WHERE id = $1 RETURNING ... ; no row: Scan gives sql.ErrNoRows
CompleteSession(id) ==
    /\ watch_sessions' =
         [watch_sessions EXCEPT ![id] = IF @ = "absent" THEN @ ELSE CompletedStatus(@)]
    /\ ret' = IF watch_sessions[id] = "absent" THEN "no_rows" ELSE "ok"
    /\ UNCHANGED <<media_items, session_votes, now, last, prev, ncast, reqs,
                   rec, cache_ret, room_participants>>

\* NOW() advances
Tick ==
    /\ now < MaxClock
    /\ now' = now + 1
    /\ UNCHANGED <<watch_sessions, media_items, session_votes, last, prev, ncast, ret, reqs,
                   rec, cache_ret, room_participants>>

\* ---------------------------------------------------- VoteHandler.CastVote
\* A request that passed routing, authentication and JSON decoding: a
\* well-formed session id, user id and media id, and a vote string.
Idle == [pc |-> "idle", session |-> 0, user |-> 0, media |-> 0, vote |-> "none",
         status |-> 0, is_match |-> FALSE, match_err |-> "none"]

Respond(r, code, match) == [r EXCEPT !.pc = "done", !.status = code, !.is_match = match]

\* variant: only the existence of the session is checked, not its status
PreCastStatusNoStatus(s, v) ==
    IF v \notin vote_type THEN 400
    ELSE IF GetSessionByID(s) = "absent" THEN 404
    ELSE 0

\* lines 85-116: the status the handler answers with before it calls the
\* ledger, or 0 when it goes on to cast the vote
PreCastStatus(s, v) ==
    IF v \notin vote_type THEN 400
    ELSE IF GetSessionByID(s) = "absent" THEN 404
    ELSE IF GetSessionByID(s) # "active" THEN 400
    ELSE 0

\* lines 42-116: validation, GetSessionByID and the status check
HandleCastVote(i, s, u, m, v) ==
    /\ reqs[i].pc = "idle"
    /\ LET r == [Idle EXCEPT !.session = s, !.user = u, !.media = m, !.vote = v]
           code == PreCastStatus(s, v)
       IN  reqs' = [reqs EXCEPT ![i] =
                       IF code # 0 THEN Respond(r, code, FALSE)
                       ELSE [r EXCEPT !.pc = "cast"]]
    /\ UNCHANGED <<watch_sessions, media_items, session_votes, now, last, prev, ncast, ret,
                   rec, cache_ret, room_participants>>

\* variant: the match check is made before the vote is written
HandlerCastCheckFirst(i) ==
    /\ reqs[i].pc = "cast"
    /\ LET r == reqs[i] IN
       /\ CastVoteStmt(r.session, r.user, r.media, r.vote)
       /\ reqs' = [reqs EXCEPT ![i] =
                      IF ret' # "ok" THEN Respond(r, 500, FALSE)
                      ELSE IF r.vote = "yes"
                           THEN Respond(r, 200, CheckMatch(r.session, r.media))
                      ELSE Respond(r, 200, FALSE)]
    /\ UNCHANGED <<watch_sessions, media_items, now,
                   rec, cache_ret, room_participants>>

\* variant: the match query is issued after every successful cast
HandlerCastAlwaysMatch(i) ==
    /\ reqs[i].pc = "cast"
    /\ LET r == reqs[i] IN
       /\ CastVoteStmt(r.session, r.user, r.media, r.vote)
       /\ reqs' = [reqs EXCEPT ![i] =
                      IF ret' # "ok" THEN Respond(r, 500, FALSE)
                      ELSE [r EXCEPT !.pc = "match"]]
    /\ UNCHANGED <<watch_sessions, media_items, now,
                   rec, cache_ret, room_participants>>

\* lines 118-133: voteRepo.CastVote; 500 on error; isMatch stays false unless
\* the vote is "yes"
HandlerCast(i) ==
    /\ reqs[i].pc = "cast"
    /\ LET r == reqs[i] IN
       /\ CastVoteStmt(r.session, r.user, r.media, r.vote)
       /\ reqs' = [reqs EXCEPT ![i] =
                      IF ret' # "ok" THEN Respond(r, 500, FALSE)
                      ELSE IF r.vote = "yes" THEN [r EXCEPT !.pc = "match"]
                      ELSE Respond(r, 200, FALSE)]
    /\ UNCHANGED <<watch_sessions, media_items, now,
                   rec, cache_ret, room_participants>>

\* the outcomes of the match query: its result, or a store error
MatchErrors == {"none", "store_error"}

\* variant: a failed match check fails the request
MatchResponseFail(r, err, match) ==
    IF err # "none"
    THEN [Respond(r, 500, FALSE) EXCEPT !.match_err = err]
    ELSE Respond(r, 200, match)

\* lines 125-138: CheckMatch returns (false, err) on a store error; the error
\* is logged and the response is written as if the check had said false
MatchResponse(r, err, match) ==
    IF err # "none"
    THEN [Respond(r, 200, FALSE) EXCEPT !.match_err = err]
    ELSE Respond(r, 200, match)

\* lines 127-146: voteRepo.CheckMatch and the response, for the outcomes errs
\* of the match query
HandlerMatchOn(i, errs) ==
    /\ reqs[i].pc = "match"
    /\ \E err \in errs :
          reqs' = [reqs EXCEPT ![i] =
                      MatchResponse(@, err, CheckMatch(@.session, @.media))]
    /\ UNCHANGED <<watch_sessions, media_items, session_votes, now, last, prev, ncast, ret,
                   rec, cache_ret, room_participants>>

\* the match query answers
HandlerMatch(i) == HandlerMatchOn(i, {"none"})

\* --------------------------------------------------------- MediaRepository
\* external (TMDB) ids: those of the seeded media items and NumNew ids that
\* are not cached at the start; local ids available to gen_random_uuid()
TmdbIds == { 100 + i : i \in 1..NumMedia } \cup { 200 + j : j \in 1..NumNew }

NewMediaIds == (NumMedia + 1)..(NumMedia + NumNew)

\* tmdb.Movie values: the title and the fields marshalled into metadata
Titles == 1..NumTitles
Metas == 1..NumMetas
Movies == [id : TmdbIds, title : Titles, metadata : Metas]

MediaRow(id, movie) ==
    [id |-> id, tmdb_id |-> movie.id, media_type |-> "movie", title |-> movie.title,
     metadata |-> movie.metadata]

\* the nil *MediaItem
NoItem == [id |-> 0, tmdb_id |-> 0, media_type |-> "none", title |-> 0, metadata |-> 0]

\* WHERE tmdb_id = $1 AND media_type = 'movie'
Found(items, t) == { r \in items : r.tmdb_id = t /\ r.media_type = "movie" }

\* QueryRowContext(...).Scan: the first row, or (nil, nil) on sql.ErrNoRows
GetMediaOn(items, t) ==
    IF Found(items, t) = {} THEN NoItem ELSE CHOOSE r \in Found(items, t) : TRUE

GetMediaByTMDBID(t) == GetMediaOn(media_items, t)

\* variant: a plain INSERT on a table without the unique constraint
CacheUpsertInsertOnly(items, movie, fresh) == items \cup { MediaRow(fresh, movie) }

\* INSERT INTO media_items (tmdb_id, media_type, title, metadata)
\* ON CONFLICT (tmdb_id, media_type)
\* DO UPDATE SET title = EXCLUDED.title, metadata = EXCLUDED.metadata, updated_at = NOW()
CacheUpsert(items, movie, fresh) ==
    LET conflict == Found(items, movie.id) IN
    IF conflict = {}
    THEN items \cup { MediaRow(fresh, movie) }
    ELSE (items \ conflict) \cup
         { [r EXCEPT !.title = movie.title, !.metadata = movie.metadata] : r \in conflict }

\* RETURNING id
ReturnedId(items, movie, fresh) ==
    IF Found(items, movie.id) = {} THEN fresh
    ELSE (CHOOSE r \in Found(items, movie.id) : TRUE).id

NoCall == [tmdb_id |-> 0, id |-> 0, title |-> 0, metadata |-> 0, existed |-> FALSE,
           old_title |-> 0]

\* the statement as executed by the store; cache_ret records the call
CacheMovieStmt(movie) ==
    \E fresh \in IF Found(media_items, movie.id) = {}
                 THEN NewMediaIds \ { r.id : r \in media_items }
                 ELSE {0} :
        /\ media_items' = CacheUpsert(media_items, movie, fresh)
        /\ cache_ret' = [tmdb_id |-> movie.id,
                         id |-> ReturnedId(media_items, movie, fresh),
                         title |-> movie.title, metadata |-> movie.metadata,
                         existed |-> Found(media_items, movie.id) # {},
                         old_title |-> GetMediaByTMDBID(movie.id).title]

\* a direct call of the repository method (as the repository tests do)
CacheMovie(movie) ==
    /\ CacheMovieStmt(movie)
    /\ UNCHANGED <<watch_sessions, session_votes, now, last, prev, ncast, ret, reqs,
                   rec, room_participants>>

\* ------------------------------ RecommendationService.GenerateRecommendations
\* slots of recommendation requests
RecReqs == 1..NumRecs

\* what the oracle client can answer: an error (request failed, status not
\* 200, body or content not parseable, no choices, zero ids), or a non-empty
\* list of external ids
OracleErrors == {"network", "status", "malformed", "empty"}

CandLists == UNION { [1..n -> TmdbIds] : n \in 1..MaxCands }

\* (recommendedTMDBIDs, err) of the oracle client
OracleAnswers ==
    { [err |-> e, ids |-> <<>>] : e \in OracleErrors }
      \cup { [err |-> "none", ids |-> c] : c \in CandLists }

NoMovie == [id |-> 0, title |-> 0, metadata |-> 0]

\* oracle, fetched, written: the calls made to the oracle, the metadata
\* provider and CacheMovie (by candidate index); failed: the candidates whose
\* fetch or cache write failed; present: those with a row in the cache at
\* the time of the first lookup; cached: those found by the first lookup;
\* readfail: some store read of the request failed
IdleRec ==
    [pc |-> "idle", session |-> 0, cands |-> <<>>, idx |-> 0, movie |-> NoMovie,
     out |-> NilSlice, err |-> "none", status |-> 0,
     oracle |-> 0, fetched |-> {}, written |-> {}, failed |-> {}, present |-> {},
     cached |-> {}, readfail |-> FALSE]

\* return nil, err ; the handler answers 500
RecFail(r, e) == [r EXCEPT !.pc = "done", !.out = NilSlice, !.err = e, !.status = 500]

\* return list, nil ; the handler answers 200 with the encoded list
RecReturn(r, list) == [r EXCEPT !.pc = "done", !.out = list, !.status = 200]

\* variant: the item is put in front of the list
AppendItemFront(slice, item) == SliceOf(<<item>> \o slice.items)

\* recommendations = append(recommendations, item)
AppendItem(slice, item) == SliceOf(slice.items \o <<item>>)

\* the end of one iteration of the loop over the candidates
NextCandidate(r) ==
    IF r.idx = Len(r.cands) THEN RecReturn(r, r.out)
    ELSE [r EXCEPT !.pc = "lookup", !.idx = @ + 1]

\* variant: the oracle is asked also when there is no liked title
LikedOutcomeNoShortCut(r, ok, liked) ==
    IF ~ok THEN RecFail(r, "store")
    ELSE [r EXCEPT !.pc = "oracle"]

\* lines 32-40: GetLikedMovies; its error is returned; no liked title: an
\* empty list is returned at once
LikedOutcome(r, ok, liked) ==
    IF ~ok THEN RecFail(r, "store")
    ELSE IF Len(liked) = 0 THEN RecReturn(r, SliceOf(<<>>))
    ELSE [r EXCEPT !.pc = "oracle"]

GenerateRecommendations(i, s) ==
    /\ rec[i].pc = "idle"
    /\ \E ok \in BOOLEAN :
          rec' = [rec EXCEPT ![i] =
                    LikedOutcome([IdleRec EXCEPT !.session = s], ok, GetLikedMovies(s))]
    /\ UNCHANGED <<watch_sessions, media_items, session_votes, now, last, prev, ncast,
                   ret, reqs, cache_ret, room_participants>>

\* variant: a failed oracle call yields an empty list
OracleOutcomeEmptyOnError(r, answer) ==
    IF answer.err # "none" THEN RecReturn(r, SliceOf(<<>>))
    ELSE [r EXCEPT !.pc = "lookup", !.cands = answer.ids, !.idx = 1, !.out = NilSlice]

\* lines 42-48: the oracle's error is returned; otherwise the loop starts
\* with var recommendations []MediaItem
OracleOutcome(r, answer) ==
    IF answer.err # "none" THEN RecFail(r, answer.err)
    ELSE [r EXCEPT !.pc = "lookup", !.cands = answer.ids, !.idx = 1, !.out = NilSlice]

\* openaiClient.GetRecommendations(likedTitles), answering one of `answers`
GetRecommendationsFrom(i, answers) ==
    /\ rec[i].pc = "oracle"
    /\ \E answer \in answers :
          rec' = [rec EXCEPT ![i] =
                    OracleOutcome([rec[i] EXCEPT !.oracle = @ + 1], answer)]
    /\ UNCHANGED <<watch_sessions, media_items, session_votes, now, last, prev, ncast,
                   ret, reqs, cache_ret, room_participants>>

GetRecommendations(i) == GetRecommendationsFrom(i, OracleAnswers)

\* variant: a failed provider fetch abandons the remaining candidates
FetchOutcomeAbort(r, ok, movie) ==
    IF ~ok THEN RecReturn([r EXCEPT !.failed = @ \cup {r.idx}], r.out)
    ELSE [r EXCEPT !.pc = "cache", !.movie = movie]

\* lines 53-61: the first lookup; a failed lookup is only logged and leaves
\* existing nil; a record that is found is appended without any fetch
LookupCandidate(i) ==
    /\ rec[i].pc = "lookup"
    /\ \E ok \in BOOLEAN :
          LET r == [rec[i] EXCEPT !.present =
                       IF Found(media_items, rec[i].cands[rec[i].idx]) # {}
                       THEN @ \cup {rec[i].idx} ELSE @]
              existing == IF ok THEN GetMediaByTMDBID(r.cands[r.idx]) ELSE NoItem
          IN  rec' = [rec EXCEPT ![i] =
                        IF existing # NoItem
                        THEN NextCandidate([r EXCEPT !.out = AppendItem(@, existing),
                                                     !.cached = @ \cup {r.idx}])
                        ELSE [r EXCEPT !.pc = "fetch", !.readfail = @ \/ ~ok]]
    /\ UNCHANGED <<watch_sessions, media_items, session_votes, now, last, prev, ncast,
                   ret, reqs, cache_ret, room_participants>>

\* lines 64-68: a failed fetch skips the candidate
FetchOutcome(r, ok, movie) ==
    IF ~ok THEN NextCandidate([r EXCEPT !.failed = @ \cup {r.idx}])
    ELSE [r EXCEPT !.pc = "cache", !.movie = movie]

\* tmdbClient.GetMovieByID(tmdbID): an error, or the movie of that id with
\* the provider's present title and details
GetMovieByID(i) ==
    /\ rec[i].pc = "fetch"
    /\ \E ok \in BOOLEAN, movie \in Movies :
          /\ movie.id = rec[i].cands[rec[i].idx]
          /\ rec' = [rec EXCEPT ![i] =
                       FetchOutcome([rec[i] EXCEPT !.fetched = @ \cup {rec[i].idx}],
                                    ok, movie)]
    /\ UNCHANGED <<watch_sessions, media_items, session_votes, now, last, prev, ncast,
                   ret, reqs, cache_ret, room_participants>>

\* lines 71-75: mediaRepo.CacheMovie; its error is only logged
CacheCandidate(i) ==
    /\ rec[i].pc = "cache"
    /\ LET r == [rec[i] EXCEPT !.written = @ \cup {rec[i].idx}] IN
       \/ /\ CacheMovieStmt(r.movie)
          /\ rec' = [rec EXCEPT ![i] = [r EXCEPT !.pc = "reread"]]
       \/ /\ UNCHANGED <<media_items, cache_ret>>
          /\ rec' = [rec EXCEPT ![i] = [r EXCEPT !.pc = "reread",
                                                  !.failed = @ \cup {r.idx}]]
    /\ UNCHANGED <<watch_sessions, session_votes, now, last, prev, ncast, ret, reqs,
                   room_participants>>

\* lines 77-81: the second lookup; the record is appended if the read
\* succeeds and finds a row
RereadCandidate(i) ==
    /\ rec[i].pc = "reread"
    /\ \E ok \in BOOLEAN :
          LET r == rec[i]
              saved == IF ok THEN GetMediaByTMDBID(r.cands[r.idx]) ELSE NoItem
          IN  rec' = [rec EXCEPT ![i] =
                        NextCandidate([r EXCEPT
                            !.out = IF saved # NoItem THEN AppendItem(@, saved) ELSE @,
                            !.readfail = @ \/ ~ok,
                            !.movie = NoMovie])]
    /\ UNCHANGED <<watch_sessions, media_items, session_votes, now, last, prev, ncast,
                   ret, reqs, cache_ret, room_participants>>

\* ----------------------------------------------------------- RoomRepository
\* initialMembers: a list of user ids, possibly with repetitions
MemberLists == UNION { [1..n -> UserIds] : n \in 0..MaxMembers }

\* the participant inserts of CreateRoom that are executed: the creator, then
\* each listed member that is not the creator
Inserted(creator, members) ==
    <<creator>> \o SelectSeq(members, LAMBDA u : u # creator)

\* the first statement of the transaction that fails, if any: a creator
\* without an auth.users row, a participant without a profile (foreign keys),
\* or a member inserted twice (primary key (room_id, user_id))
CreateRoomResult(creator, members) ==
    LET ins == Inserted(creator, members) IN
    IF creator \notin AuthUsers THEN "fk_violation"
    ELSE IF \E k \in 1..Len(ins) : ins[k] \notin Profiles THEN "fk_violation"
    ELSE IF \E j, k \in 1..Len(ins) : j < k /\ ins[j] = ins[k] THEN "pk_violation"
    ELSE "ok"

\* variant: the statements run outside a transaction, so that what was
\* inserted before the failing statement stays
CreateRoomNoTx(creator, members) ==
    LET ins  == Inserted(creator, members)
        bad  == { k \in 1..Len(ins) :
                    \/ ins[k] \notin Profiles
                    \/ \E j \in 1..(k-1) : ins[j] = ins[k] }
        done == { k \in 1..Len(ins) : \A b \in bad : k < b }
    IN
    /\ IF creator \in AuthUsers
       THEN \E id \in SessionIds :
               /\ watch_sessions[id] = "absent"
               /\ watch_sessions' = [watch_sessions EXCEPT ![id] = "active"]
               /\ room_participants' = room_participants \cup
                      { <<id, ins[k]>> : k \in done }
       ELSE UNCHANGED <<watch_sessions, room_participants>>
    /\ ret' = CreateRoomResult(creator, members)
    /\ UNCHANGED <<media_items, session_votes, now, last, prev, ncast, reqs, rec,
                   cache_ret>>

\* BEGIN; INSERT INTO watch_sessions ... 'active'; INSERT INTO
\* room_participants per participant; COMMIT -- or the deferred Rollback
CreateRoom(creator, members) ==
    /\ IF CreateRoomResult(creator, members) = "ok"
       THEN /\ \E id \in SessionIds :
                 /\ watch_sessions[id] = "absent"
                 /\ watch_sessions' = [watch_sessions EXCEPT ![id] = "active"]
                 /\ room_participants' = room_participants \cup
                        { <<id, Inserted(creator, members)[k]>> :
                            k \in 1..Len(Inserted(creator, members)) }
            /\ ret' = "ok"
       ELSE /\ UNCHANGED <<watch_sessions, room_participants>>
            /\ ret' = CreateRoomResult(creator, members)
    /\ UNCHANGED <<media_items, session_votes, now, last, prev, ncast, reqs, rec,
                   cache_ret>>

\* INSERT INTO room_participants (room_id, user_id)
\* ON CONFLICT (room_id, user_id) DO NOTHING ; both columns are foreign keys
AddParticipant(room, user) ==
    /\ IF watch_sessions[room] # "absent" /\ user \in Profiles
       THEN /\ room_participants' = room_participants \cup { <<room, user>> }
            /\ ret' = "ok"
       ELSE /\ UNCHANGED room_participants
            /\ ret' = "fk_violation"
    /\ UNCHANGED <<watch_sessions, media_items, session_votes, now, last, prev, ncast,
                   reqs, rec, cache_ret>>

\* SELECT EXISTS(SELECT 1 FROM room_participants WHERE room_id = $1 AND user_id = $2)
IsParticipant(room, user) == <<room, user>> \in room_participants

\* ------------------------------------------------------------ specification
Init ==
    /\ watch_sessions = [id \in SessionIds |-> "absent"]
    /\ media_items = SeedMedia
    /\ session_votes = {}
    /\ now = 0
    /\ last = [t \in Triples |-> "none"]
    /\ prev = [t \in Triples |-> "none"]
    /\ ncast = 0
    /\ ret = "ok"
    /\ reqs = [i \in Reqs |-> Idle]
    /\ rec = [i \in RecReqs |-> IdleRec]
    /\ cache_ret = NoCall
    /\ room_participants = {}

\* the repositories, called one statement at a time; no statement of these
\* reads a timestamp, and NOW() is left at its initial value
Next ==
    \/ \E creator \in UserIds : CreateSession(creator)
    \/ \E id \in SessionIds : CompleteSession(id)
    \/ \E s \in SessionIds, u \in UserIds, m \in MediaIds, v \in VoteInputs :
           CastVote(s, u, m, v)

Spec == Init /\ [][Next]_vars

\* concurrent cast-vote requests, with sessions created and completed meanwhile
NextApi ==
    \/ \E creator \in AuthUsers : CreateSession(creator)
    \/ \E id \in SessionIds : CompleteSession(id)
    \/ \E i \in Reqs, s \in ReqSessions, u \in ReqUsers, m \in ReqMedia, v \in VoteInputs :
           HandleCastVote(i, s, u, m, v)
    \/ \E i \in Reqs : HandlerCast(i)
    \/ \E i \in Reqs : HandlerMatch(i)
    \/ Tick

SpecApi == Init /\ [][NextApi]_vars

\* the cast-vote requests when the match query can fail with a store error
NextApiFaulty ==
    \/ \E creator \in AuthUsers : CreateSession(creator)
    \/ \E id \in SessionIds : CompleteSession(id)
    \/ \E i \in Reqs, s \in ReqSessions, u \in ReqUsers, m \in ReqMedia, v \in VoteInputs :
           HandleCastVote(i, s, u, m, v)
    \/ \E i \in Reqs : HandlerCast(i)
    \/ \E i \in Reqs : HandlerMatchOn(i, MatchErrors)
    \/ Tick

SpecApiFaulty == Init /\ [][NextApiFaulty]_vars

\* ------------------------------------------------- a store with seeded votes
\* testutils SeedWatchSession and SeedVote: session 1 exists and is active, and
\* every user of a set Y of seeded voters has voted yes on every seeded media
\* item of session 1
SeedVoters == 2..NumUsers

SeedVotes(Y) == { VoteRow(1, u, m, "yes", 0) : u \in Y, m \in 1..NumMedia }

InitSeeded ==
    /\ watch_sessions = [id \in SessionIds |-> IF id = 1 THEN "active" ELSE "absent"]
    /\ media_items = SeedMedia
    /\ \E Y \in SUBSET SeedVoters :
          /\ session_votes = SeedVotes(Y)
          /\ last = [t \in Triples |->
                       IF t[1] = 1 /\ t[2] \in Y /\ t[3] \in 1..NumMedia
                       THEN "yes" ELSE "none"]
    /\ now = 0
    /\ prev = [t \in Triples |-> "none"]
    /\ ncast = 0
    /\ ret = "ok"
    /\ reqs = [i \in Reqs |-> Idle]
    /\ rec = [i \in RecReqs |-> IdleRec]
    /\ cache_ret = NoCall
    /\ room_participants = {}

\* the repositories called on the seeded store
SpecSeeded == InitSeeded /\ [][Next]_vars

\* cast-vote requests on the seeded store
SpecApiSeeded == InitSeeded /\ [][NextApi]_vars

\* one recommendation request on the seeded store, in any of the slots
NextRec ==
    \/ \E i \in RecReqs, s \in SessionIds :
          /\ \A j \in RecReqs : rec[j].pc = "idle"
          /\ GenerateRecommendations(i, s)
    \/ \E i \in RecReqs : GetRecommendations(i)
    \/ \E i \in RecReqs : LookupCandidate(i)
    \/ \E i \in RecReqs : GetMovieByID(i)
    \/ \E i \in RecReqs : CacheCandidate(i)
    \/ \E i \in RecReqs : RereadCandidate(i)

SpecRec == InitSeeded /\ [][NextRec]_vars

\* the Media Cache written by direct calls of CacheMovie
NextCache == \E movie \in Movies : CacheMovie(movie)

SpecCache == InitSeeded /\ [][NextCache]_vars

\* rooms with participants, and one cast-vote request on them
NextRoom ==
    \/ \E creator \in UserIds, members \in MemberLists : CreateRoom(creator, members)
    \/ \E room \in SessionIds, user \in UserIds : AddParticipant(room, user)
    \/ \E i \in Reqs, s \in ReqSessions, u \in ReqUsers, m \in ReqMedia, v \in VoteInputs :
           /\ \A j \in Reqs : reqs[j].pc = "idle"
           /\ HandleCastVote(i, s, u, m, v)
    \/ \E i \in Reqs : HandlerCast(i)
    \/ \E i \in Reqs : HandlerMatch(i)

SpecRoom == Init /\ [][NextRoom]_vars

\* concurrent recommendation requests whose oracle answers are candidates
\* that are not cached at the start
UncachedAnswers ==
    { a \in OracleAnswers :
        /\ a.err = "none"
        /\ Len(a.ids) = 1
        /\ a.ids[1] \notin { r.tmdb_id : r \in SeedMedia } }

NextRecConc ==
    \/ \E i \in RecReqs : GenerateRecommendations(i, 1)
    \/ \E i \in RecReqs : GetRecommendationsFrom(i, UncachedAnswers)
    \/ \E i \in RecReqs : LookupCandidate(i)
    \/ \E i \in RecReqs : GetMovieByID(i)
    \/ \E i \in RecReqs : CacheCandidate(i)
    \/ \E i \in RecReqs : RereadCandidate(i)

SpecRecConc == InitSeeded /\ [][NextRecConc]_vars

\* the room repository called directly (as the repository tests do)
NextRoomRepo ==
    \/ \E creator \in UserIds, members \in MemberLists : CreateRoom(creator, members)
    \/ \E room \in SessionIds, user \in UserIds : AddParticipant(room, user)

SpecRoomRepo == Init /\ [][NextRoomRepo]_vars

\* the ledger called directly while the store's clock advances
NextClock ==
    \/ \E creator \in AuthUsers : CreateSession(creator)
    \/ \E s \in ReqSessions, u \in ReqUsers, m \in ReqMedia, v \in VoteInputs :
           CastVote(s, u, m, v)
    \/ Tick

SpecClock == Init /\ [][NextClock]_vars

\* ===================================================================== claims
\* the rows of session_votes with the key t = <<session, user, media>>
Rows(t) == RowsOf(session_votes, t[1], t[2], t[3])

\* ids of the media items returned by GetMatchesForSession over `rows`
MatchIds(rows, s) ==
    LET l == GetMatchesOn(rows, s) IN { l[i].id : i \in DOMAIN l }

\* users with a current 'yes' vote for m in s
YesUsers(s, m) ==
    { u \in UserIds : \E r \in session_votes :
        r.session_id = s /\ r.media_id = m /\ r.user_id = u /\ r.vote = "yes" }

NegativeVotes == {"no", "maybe"}

\* C1: after any sequence of successful CastVote calls, every triple that was
\* cast has exactly one row and the row holds the value of the last call on
\* that triple; a triple never cast has no row.
C1_LastCastWins ==
    \A t \in Triples :
        IF last[t] = "none"
        THEN Rows(t) = {}
        ELSE \E r \in Rows(t) : Rows(t) = {r} /\ r.vote = last[t]

\* a triple re-cast with another value, while another triple has a vote too
C1_Witness ==
    \E t \in Triples :
        /\ prev[t] # "none" /\ prev[t] # last[t]
        /\ \E t2 \in Triples \ {t} : last[t2] # "none"

\* C2: CheckMatch(S, M) holds iff M is in the result of GetMatchesForSession(S).
C2_CheckMatchIffListed ==
    \A s \in SessionIds, m \in MediaIds :
        CheckMatch(s, m) <=> m \in MatchIds(session_votes, s)

\* one item matched and listed, another with a single yes vote and not listed
C2_Witness ==
    \E s \in SessionIds, m1, m2 \in MediaIds :
        /\ CheckMatch(s, m1) /\ m1 \in MatchIds(session_votes, s)
        /\ CountYes(session_votes, s, m2) = 1 /\ m2 \notin MatchIds(session_votes, s)

\* C3: CheckMatch(S, M) holds iff at least 2 distinct users have a current yes
\* vote for M in S, whatever the no and maybe votes on M.
C3_MatchIffTwoYesUsers ==
    \A s \in SessionIds, m \in MediaIds :
        CheckMatch(s, m) <=> Cardinality(YesUsers(s, m)) >= 2

\* two yes votes and one no vote on the same item: a match
C3_Witness ==
    \E s \in SessionIds, m \in MediaIds :
        /\ Cardinality(YesUsers(s, m)) = 2
        /\ \E r \in session_votes : r.session_id = s /\ r.media_id = m /\ r.vote = "no"
        /\ CheckMatch(s, m)

\* C4: a CastVote of 'no' or 'maybe' never increases the yes-count of any
\* (session, media) pair and never turns a non-match into a match.
NoYesGain ==
    \A s2 \in SessionIds, m2 \in MediaIds :
        /\ CountYes(session_votes', s2, m2) <= CountYes(session_votes, s2, m2)
        /\ CheckMatchOn(session_votes', s2, m2) => CheckMatchOn(session_votes, s2, m2)

C4_NegativeVoteNeverAddsYes ==
    [][ \/ NoYesGain
        \/ ~ \E s \in SessionIds, u \in UserIds, m \in MediaIds, v \in NegativeVotes :
                CastVote(s, u, m, v)
      ]_vars

\* a 'maybe' was cast on an item that another user likes
C4_Witness ==
    \E t \in Triples :
        /\ last[t] = "maybe" /\ prev[t] = "none"
        /\ CountYes(session_votes, t[1], t[3]) = 1

\* C5: re-casting 'no' or 'maybe' over one's own 'yes' lowers the yes-count of
\* the pair by exactly 1; if it was 2, the item is no longer a match and is no
\* longer listed.
C5_RecastYesToNegative ==
    [][ \A s \in SessionIds, u \in UserIds, m \in MediaIds, v \in NegativeVotes :
          ( /\ ncast' = ncast + 1
            /\ \E r \in RowsOf(session_votes, s, u, m) : r.vote = "yes"
            /\ CastVote(s, u, m, v) )
          =>
          ( /\ CountYes(session_votes', s, m) = CountYes(session_votes, s, m) - 1
            /\ CountYes(session_votes, s, m) = 2 =>
                  /\ ~CheckMatchOn(session_votes', s, m)
                  /\ m \notin MatchIds(session_votes', s) )
      ]_vars

\* a user took back one of the two yes votes of an item
C5_Witness ==
    \E t \in Triples :
        /\ prev[t] = "yes" /\ last[t] \in NegativeVotes
        /\ CountYes(session_votes, t[1], t[3]) = 1
        /\ ~CheckMatch(t[1], t[3])

\* C6: a vote value outside {yes, no, maybe} is answered 400 by the handler
\* before any statement, fails at the repository with the ledger unchanged,
\* and no row ever holds such a value.
C6_InvalidVoteRejected ==
    /\ [](\A r \in session_votes : r.vote \in vote_type)
    /\ [](\A s \in SessionIds : PreCastStatus(s, "invalid") = 400)
    /\ [][ \/ (session_votes' = session_votes /\ ret' = "invalid_enum")
           \/ ~ \E s \in SessionIds, u \in UserIds, m \in MediaIds :
                   CastVote(s, u, m, "invalid")
         ]_vars

\* the repository refused an invalid value while votes were already recorded
C6_Witness ==
    /\ ret = "invalid_enum"
    /\ session_votes # {}

\* the request in slot i
KeyOf(i) == <<reqs[i].session, reqs[i].user, reqs[i].media>>

\* the request in slot i has had its vote written to the ledger
Applied(i) ==
    \/ reqs[i].pc = "match"
    \/ reqs[i].pc = "done" /\ reqs[i].status = 200

\* C7: a cast-vote request (with a valid vote value) for a session that is
\* completed when the request is handled is answered 400, one for a session
\* that does not exist is answered 404, in both cases without calling the
\* ledger and with the ledger unchanged.
C7_InactiveSessionRejected ==
    [][ \A i \in Reqs :
          ( /\ reqs[i].pc = "idle"
            /\ reqs'[i].pc # "idle"
            /\ reqs'[i].vote \in vote_type )
          =>
          ( /\ watch_sessions[reqs'[i].session] = "completed" =>
                  /\ reqs'[i].pc = "done" /\ reqs'[i].status = 400
                  /\ session_votes' = session_votes
            /\ watch_sessions[reqs'[i].session] = "absent" =>
                  /\ reqs'[i].pc = "done" /\ reqs'[i].status = 404
                  /\ session_votes' = session_votes )
      ]_vars

\* one request was refused as not found, a later one because the session was
\* completed by then
C7_Witness ==
    \E i, j \in Reqs :
        /\ reqs[i].pc = "done" /\ reqs[i].status = 404 /\ reqs[i].vote \in vote_type
        /\ reqs[j].pc = "done" /\ reqs[j].status = 400 /\ reqs[j].vote \in vote_type
        /\ watch_sessions[reqs[j].session] = "completed"

\* C8: a session is created active; a completed session stays completed under
\* every operation; CompleteSession on an existing session, completed or not,
\* succeeds and leaves it completed.
C8_SessionLifecycle ==
    [][ \A id \in SessionIds :
          /\ watch_sessions[id] = "completed" => watch_sessions'[id] = "completed"
          /\ (watch_sessions[id] = "absent" /\ watch_sessions'[id] # "absent")
                => watch_sessions'[id] = "active"
          /\ (watch_sessions[id] # "absent" /\ CompleteSession(id))
                => (watch_sessions'[id] = "completed" /\ ret' = "ok")
      ]_vars

\* a completed session that received a vote, next to an active one
C8_Witness ==
    \E id, id2 \in SessionIds :
        /\ watch_sessions[id] = "completed"
        /\ watch_sessions[id2] = "active"
        /\ \E r \in session_votes : r.session_id = id

\* C9: under every interleaving of the requests, a triple has at most one row
\* in every state, its user is counted at most once among the yes votes, and
\* once some request on it has been applied the triple has exactly one row
\* holding the value applied last, which is the value of one of the requests.
C9_ConcurrentSameTriple ==
    \A t \in Triples :
        LET applied == { i \in Reqs : Applied(i) /\ KeyOf(i) = t } IN
        /\ Cardinality(Rows(t)) <= 1
        /\ Cardinality({ r \in Rows(t) : r.vote = "yes" }) <= 1
        /\ applied = {} => Rows(t) = {}
        /\ applied # {} =>
              \E r \in Rows(t) :
                  /\ Rows(t) = {r}
                  /\ r.vote = last[t]
                  /\ \E i \in applied : reqs[i].vote = r.vote

\* two requests on the same triple with different values, both answered 200
C9_Witness ==
    \E i, j \in Reqs :
        /\ i # j /\ KeyOf(i) = KeyOf(j) /\ reqs[i].vote # reqs[j].vote
        /\ reqs[i].pc = "done" /\ reqs[i].status = 200
        /\ reqs[j].pc = "done" /\ reqs[j].status = 200

\* the values of the applied requests on the triple t
OwnVotes(t) == { reqs[k].vote : k \in { k \in Reqs : Applied(k) /\ KeyOf(k) = t } }

\* C10: the cast of a request changes no row of any other triple, and two
\* applied requests of different users on the same (session, media) pair
\* leave two rows, each holding a value cast by its own user.
C10_OtherTriplesUntouched ==
    /\ [][ \A i \in Reqs :
             (reqs[i].pc = "cast" /\ reqs'[i].pc # "cast") =>
               \A t \in Triples \ {KeyOf(i)} :
                   RowsOf(session_votes', t[1], t[2], t[3]) = Rows(t)
         ]_vars
    /\ [](\A i, j \in Reqs :
             ( /\ Applied(i) /\ Applied(j)
               /\ reqs[i].session = reqs[j].session
               /\ reqs[i].media = reqs[j].media
               /\ reqs[i].user # reqs[j].user )
             =>
             ( /\ \E r \in Rows(KeyOf(i)) : r.vote \in OwnVotes(KeyOf(i))
               /\ \E r \in Rows(KeyOf(j)) : r.vote \in OwnVotes(KeyOf(j))
               /\ Cardinality(Rows(KeyOf(i)) \cup Rows(KeyOf(j))) = 2 ))

\* two users voted on the same item of the same session, with different values
C10_Witness ==
    \E i, j \in Reqs :
        /\ reqs[i].user # reqs[j].user /\ reqs[i].vote # reqs[j].vote
        /\ reqs[i].session = reqs[j].session /\ reqs[i].media = reqs[j].media
        /\ reqs[i].pc = "done" /\ reqs[i].status = 200
        /\ reqs[j].pc = "done" /\ reqs[j].status = 200

\* C11: the cast-vote handler issues the match query only for a vote of "yes":
\* a request voting "no" or "maybe" never reaches the match query, goes from
\* the cast straight to its response, and a successful one answers
\* isMatch = false whatever the yes votes of the other users are; a "yes"
\* request answers with the result of the match query
C11_MatchQueryOnlyOnYes ==
    /\ [](\A i \in Reqs :
            /\ reqs[i].pc = "match" => reqs[i].vote = "yes"
            /\ (reqs[i].pc = "done" /\ reqs[i].vote \in NegativeVotes)
                 => reqs[i].is_match = FALSE)
    /\ [][\A i \in Reqs :
            /\ (reqs[i].pc = "cast" /\ reqs[i].vote \in NegativeVotes /\ reqs'[i].pc # "cast")
                 => /\ reqs'[i].pc = "done"
                    /\ ret' = "ok" => (reqs'[i].status = 200 /\ reqs'[i].is_match = FALSE)
            /\ (reqs[i].pc = "match" /\ reqs'[i].pc # "match")
                 => /\ reqs'[i].pc = "done"
                    /\ reqs'[i].status = 200
                    /\ reqs'[i].is_match = CheckMatch(reqs[i].session, reqs[i].media)]_vars

\* a successful "no" or "maybe" request answered isMatch = false on an item
\* that two other users currently vote yes on
C11_Witness ==
    \E i \in Reqs :
        /\ reqs[i].pc = "done" /\ reqs[i].status = 200
        /\ reqs[i].vote \in NegativeVotes
        /\ reqs[i].is_match = FALSE
        /\ Rows(KeyOf(i)) # {}
        /\ Cardinality(YesUsers(reqs[i].session, reqs[i].media) \ {reqs[i].user}) >= 2
        /\ CheckMatch(reqs[i].session, reqs[i].media)

\* C12: GetMatchesForSession(S) lists every media item with two or more yes
\* votes in S exactly once, lists no item with fewer than two, and is in
\* ascending order of title
C12_MatchListExactOnceOrdered ==
    \A s \in SessionIds :
        LET l == GetMatchesForSession(s) IN
        /\ \A i, j \in 1..Len(l) : i # j => l[i].id # l[j].id
        /\ { l[i].id : i \in 1..Len(l) }
             = { m \in MediaIds : Cardinality(YesUsers(s, m)) >= MatchThreshold }
        /\ \A i, j \in 1..Len(l) : i < j => l[i].title <= l[j].title

\* after a cast, two items are listed, in title order against their id order,
\* while one of them has three yes voters
C12_Witness ==
    /\ ncast > 0
    /\ \E s \in SessionIds :
          LET l == GetMatchesForSession(s) IN
          /\ Len(l) = 2
          /\ l[1].id > l[2].id
          /\ l[1].title < l[2].title
          /\ \E m \in MediaIds : Cardinality(YesUsers(s, m)) = 3

\* C13: the list-matches response always carries a list, never null, whose
\* length is the reported count; for a session without votes, or with votes
\* but no item reaching two yes votes, the list is empty and the count is 0
C13_MatchesResponseListAndCount ==
    \A s \in SessionIds :
        LET r == GetMatches(s) IN
        /\ r.status = 200
        /\ ~JSONIsNull(r.matches)
        /\ r.count = Len(r.matches.items)
        /\ r.matches.items = GetMatchesForSession(s)
        /\ (\A m \in MediaIds : Cardinality(YesUsers(s, m)) < MatchThreshold)
             => (r.matches.items = <<>> /\ r.count = 0)

\* one session has no vote at all, another has a yes vote and a no vote on an
\* item but no match; both are answered with an empty list and count 0
C13_Witness ==
    /\ ncast > 0
    /\ \E s1, s2 \in SessionIds :
          /\ { r \in session_votes : r.session_id = s1 } = {}
          /\ \E m \in MediaIds :
                /\ Cardinality(YesUsers(s2, m)) = 1
                /\ \E r \in session_votes :
                      r.session_id = s2 /\ r.media_id = m /\ r.vote = "no"
          /\ GetMatchesForSession(s2) = <<>>
          /\ GetMatches(s1) = [status |-> 200, matches |-> SliceOf(<<>>), count |-> 0]
          /\ GetMatches(s2) = [status |-> 200, matches |-> SliceOf(<<>>), count |-> 0]

\* the titles of the media items on which some user's latest vote in s is yes
CurrentlyLiked(s) ==
    { mi.title : mi \in { x \in media_items :
        \E u \in UserIds : last[<<s, u, x.id>>] = "yes" } }

\* C14: GetLikedMovies(S) lists exactly the titles of the media items with at
\* least one current yes vote in S, each once, in ascending order; it is empty
\* when S has no current yes vote
C14_LikedTitlesExactOnceOrdered ==
    \A s \in SessionIds :
        LET l == GetLikedMovies(s) IN
        /\ { l[i] : i \in 1..Len(l) } = CurrentlyLiked(s)
        /\ \A i, j \in 1..Len(l) : i < j => l[i] < l[j]
        /\ (\A t \in Triples : t[1] = s => last[t] # "yes") => l = <<>>

\* an item with two yes voters is listed once, an item that has votes but no
\* current yes vote is left out, and a session without yes votes lists nothing
C14_Witness ==
    /\ ncast > 0
    /\ \E s \in SessionIds, m1, m2 \in MediaIds :
          /\ Cardinality(YesUsers(s, m1)) >= 2
          /\ YesUsers(s, m2) = {}
          /\ \E u \in UserIds : last[<<s, u, m2>>] \in NegativeVotes
          /\ GetLikedMovies(s) = << TitleOf(m1) >>
    /\ \E s \in SessionIds : GetLikedMovies(s) = <<>>

\* a request that has returned is not touched again
RecDoneIsFinal ==
    \A i \in RecReqs : rec[i].pc = "done" => rec'[i] = rec[i]

\* C15: a recommendation request for a session without liked titles, whose
\* read of the liked titles succeeds, returns at once an empty list and no
\* error, and has called neither the oracle, nor the metadata provider, nor
\* CacheMovie; the Media Cache is as it was
C15_NoLikedTitlesShortCircuit ==
    /\ [][/\ RecDoneIsFinal
          /\ \A i \in RecReqs :
                (/\ rec[i].pc = "idle" /\ rec'[i].pc # "idle"
                 /\ GetLikedMovies(rec'[i].session) = <<>>
                 /\ rec'[i].err = "none")
                => /\ rec'[i].pc = "done"
                   /\ rec'[i].status = 200
                   /\ rec'[i].out = SliceOf(<<>>)
                   /\ rec'[i].oracle = 0
                   /\ rec'[i].fetched = {} /\ rec'[i].written = {}
                   /\ media_items' = media_items /\ cache_ret' = cache_ret]_vars
    /\ [](\A i \in RecReqs :
            rec[i].pc \in {"oracle", "lookup", "fetch", "cache", "reread"}
              => GetLikedMovies(rec[i].session) # <<>>)

\* a request on a session without yes votes has returned the empty list
\* without any external call
C15_Witness ==
    \E i \in RecReqs :
        /\ rec[i].pc = "done" /\ rec[i].err = "none" /\ rec[i].status = 200
        /\ YesUsers(rec[i].session, 1) = {} /\ GetLikedMovies(rec[i].session) = <<>>
        /\ rec[i].out = SliceOf(<<>>)
        /\ rec[i].oracle = 0 /\ rec[i].fetched = {} /\ rec[i].written = {}

\* C16: when the session has a liked title and the oracle call fails (any of
\* its errors, zero candidates included), the request returns that error and
\* no list, neither empty nor partial, and the HTTP layer answers 500
C16_OracleFailureIsHardError ==
    \A i \in RecReqs :
        (rec[i].oracle = 1 /\ rec[i].cands = <<>>)
        => /\ rec[i].pc = "done"
           /\ rec[i].err \in OracleErrors
           /\ rec[i].out = NilSlice
           /\ rec[i].status = 500
           /\ rec[i].fetched = {} /\ rec[i].written = {}

\* the oracle answered with zero candidates for a session with liked titles
C16_Witness ==
    \E i \in RecReqs :
        /\ rec[i].pc = "done" /\ rec[i].oracle = 1
        /\ GetLikedMovies(rec[i].session) # <<>>
        /\ rec[i].err = "empty"
        /\ rec[i].status = 500 /\ rec[i].out = NilSlice

\* the candidates of request r whose fetch and cache write did not fail, in
\* the oracle's order
Resolvable(r) ==
    LET kept == SelectSeq([j \in 1..Len(r.cands) |-> j], LAMBDA j : j \notin r.failed)
    IN  [j \in 1..Len(kept) |-> r.cands[kept[j]]]

C19_OnlyParticipantsVote ==
    [][\A i \in Reqs :
         (/\ reqs[i].pc = "cast" /\ reqs'[i].pc # "cast"
          /\ ~IsParticipant(reqs[i].session, reqs[i].user))
         => /\ ncast' = ncast /\ session_votes' = session_votes
            /\ reqs'[i].pc = "done" /\ reqs'[i].status # 200]_vars

\* C20: a cast-vote request on an active session whose media id or user id
\* has no row is answered with a client error (400 or 404), never with 500,
\* and writes no vote row
C20_MissingReferenceIsClientError ==
    [][\A i \in Reqs :
         (/\ reqs[i].pc = "cast" /\ reqs'[i].pc # "cast"
          /\ watch_sessions[reqs[i].session] = "active"
          /\ \/ reqs[i].media \notin { r.id : r \in media_items }
             \/ reqs[i].user \notin Profiles)
         => /\ reqs'[i].pc = "done"
            /\ reqs'[i].status \in {400, 404}
            /\ session_votes' = session_votes]_vars

\* C21: once a session is completed no vote row of it is created or modified,
\* under every interleaving of cast-vote requests with CompleteSession: no
\* request writes the ledger in a state where its session is completed
C21_NoVoteAfterCompletion ==
    [][\A i \in Reqs :
         (/\ reqs[i].pc = "cast" /\ reqs'[i].pc # "cast"
          /\ watch_sessions[reqs[i].session] = "completed")
         => /\ ncast' = ncast
            /\ session_votes' = session_votes]_vars

\* C22: under every interleaving of recommendation requests that resolve the
\* same uncached external id (lookup, provider fetch, CacheMovie, re-read),
\* the Media Cache holds at most one row for that id, and every record a
\* request has included for it carries the local id of that single row
C22_ConcurrentResolutionOneRow ==
    /\ \A r1, r2 \in media_items :
          (r1.tmdb_id = r2.tmdb_id /\ r1.media_type = r2.media_type) => r1 = r2
    /\ \A i \in RecReqs : \A k \in 1..Len(rec[i].out.items) :
          LET item == rec[i].out.items[k] IN
          /\ Cardinality(Found(media_items, item.tmdb_id)) = 1
          /\ item.id = GetMediaByTMDBID(item.tmdb_id).id
    /\ \A i \in RecReqs : \A k \in rec[i].written \ rec[i].failed :
          Cardinality(Found(media_items, rec[i].cands[k])) = 1

\* two requests found the same id uncached, both fetched it and both called
\* CacheMovie; one row exists and both return a record with its local id
C22_Witness ==
    \E i, j \in RecReqs :
        /\ i # j
        /\ rec[i].pc = "done" /\ rec[j].pc = "done"
        /\ rec[i].cands = rec[j].cands /\ Len(rec[i].cands) = 1
        /\ rec[i].written = {1} /\ rec[j].written = {1}
        /\ rec[i].failed = {} /\ rec[j].failed = {}
        /\ Len(rec[i].out.items) = 1 /\ Len(rec[j].out.items) = 1
        /\ rec[i].out.items[1].id = rec[j].out.items[1].id
        /\ rec[i].out.items[1].id \in NewMediaIds
        /\ Cardinality(Found(media_items, rec[i].cands[1])) = 1

\* the candidates c at the indices of S, in the order of c
SubSeqAt(c, S) ==
    LET kept == SelectSeq([j \in 1..Len(c) |-> j], LAMBDA j : j \in S)
    IN  [j \in 1..Len(kept) |-> c[kept[j]]]

\* the external ids of the records request r has collected
OutIds(r) == [j \in 1..Len(r.out.items) |-> r.out.items[j].tmdb_id]

\* C23 as stated: the list of a request that returned without error is a
\* subsequence of the oracle's candidates in their order, holding every
\* candidate that was already cached, none of which was fetched from the
\* provider, and no external id the oracle did not return
C23_SubsequenceCachedNotFetched ==
    \A i \in RecReqs :
        LET r == rec[i] IN
        (r.pc = "done" /\ r.err = "none" /\ r.cands # <<>>)
        => /\ \E S \in SUBSET (1..Len(r.cands)) :
                 r.present \subseteq S /\ OutIds(r) = SubSeqAt(r.cands, S)
           /\ r.present \cap r.fetched = {}

\* C23 amended: the list of a request that returned without error is a
\* subsequence of the oracle's candidates in their order, with no external
\* id the oracle did not return; every candidate that the first lookup found
\* in the cache is in the list and was not fetched from the provider; a
\* cached candidate is fetched only when its lookup failed with a store error
C23_SubsequenceFoundNotFetched ==
    \A i \in RecReqs :
        LET r == rec[i] IN
        /\ r.cached \cap r.fetched = {}
        /\ r.cached \subseteq r.present
        /\ (r.present \ r.cached # {}) => r.readfail
        /\ (r.pc = "done" /\ r.err = "none" /\ r.cands # <<>>)
           => \E S \in SUBSET (1..Len(r.cands)) :
                 r.cached \subseteq S /\ OutIds(r) = SubSeqAt(r.cands, S)

\* an uncached candidate followed by a cached one: the first was fetched and
\* cached, the second taken from the cache, and both are returned in order
C23_Witness ==
    \E i \in RecReqs :
        /\ rec[i].pc = "done" /\ rec[i].err = "none" /\ ~rec[i].readfail
        /\ Len(rec[i].cands) = 2 /\ rec[i].cands[1] # rec[i].cands[2]
        /\ rec[i].fetched = {1} /\ rec[i].cached = {2}
        /\ OutIds(rec[i]) = rec[i].cands

\* C24: a successful CastVote on a triple that already has a row leaves that
\* triple with one row, carrying the new value and an update timestamp equal
\* to the time of the re-cast, which is not earlier than the timestamps the
\* previous cast left in the row
C24_RecastRefreshesTimestamp ==
    [][\A t \in Triples :
         (/\ ncast' = ncast + 1
          /\ Rows(t) # {}
          /\ \E v \in vote_type : CastVote(t[1], t[2], t[3], v))
         => \E old \in Rows(t) :
              /\ RowsOf(session_votes', t[1], t[2], t[3])
                   = { [old EXCEPT !.vote = last'[t], !.created_at = now,
                                   !.updated_at = now] }
              /\ now >= old.updated_at /\ now >= old.created_at
              /\ Cardinality(session_votes') = Cardinality(session_votes)]_vars

\* a triple was cast twice, with different values, and its single row
\* carries the later clock value as update timestamp
C24_Witness ==
    \E t \in Triples :
        /\ prev[t] # "none" /\ last[t] # prev[t]
        /\ now = MaxClock
        /\ \E r \in Rows(t) : Rows(t) = {r} /\ r.vote = last[t] /\ r.updated_at = MaxClock
        /\ \E r2 \in session_votes : r2.updated_at < MaxClock

\* C25: CompleteSession on an id without a row returns no session and no
\* error and leaves every session as it was, so that GetSessionByID still
\* finds no session for the id and no row has been created
C25_MissingSessionUntouched ==
    [][\A id \in SessionIds :
         (/\ GetSessionByID(id) = "absent"
          /\ CompleteSession(id))
         => /\ ScanSession(ret', watch_sessions'[id]) = [session |-> "nil", err |-> "nil"]
            /\ watch_sessions' = watch_sessions
            /\ GetSessionByID(id)' = "absent"
            /\ session_votes' = session_votes]_vars

\* the last statement was a CompleteSession that found no row, while another
\* session exists
C25_Witness ==
    /\ ret = "no_rows"
    /\ \E id \in SessionIds : GetSessionByID(id) = "absent"
    /\ \E id \in SessionIds : GetSessionByID(id) = "active"
    /\ \E t \in Triples : Rows(t) # {}

ParticipantsOf(parts, room) == { p[2] : p \in { q \in parts : q[1] = room } }

ListedIn(members) == { members[k] : k \in 1..Len(members) }

\* C26: a CreateRoom that succeeds adds one active room whose participants
\* are the creator and the listed members, one row each, and touches no other
\* room; a CreateRoom that fails leaves no room row and no participant row
C26_CreateRoomAllOrNothing ==
    [][\A creator \in UserIds, members \in MemberLists :
         (/\ ret' = CreateRoomResult(creator, members)
          /\ CreateRoom(creator, members))
         => IF ret' = "ok"
            THEN \E id \in SessionIds :
                   /\ watch_sessions[id] = "absent"
                   /\ watch_sessions' = [watch_sessions EXCEPT ![id] = "active"]
                   /\ ParticipantsOf(room_participants', id)
                        = {creator} \cup ListedIn(members)
                   /\ Cardinality(room_participants' \ room_participants)
                        = Cardinality({creator} \cup ListedIn(members))
                   /\ room_participants \subseteq room_participants'
                   /\ \A p \in room_participants' \ room_participants : p[1] = id
            ELSE /\ watch_sessions' = watch_sessions
                 /\ room_participants' = room_participants]_vars

\* a CreateRoom has just failed on its second participant insert (a member
\* listed twice), after another room was created with two participants, and
\* the failed call left neither a room nor a participant behind
C26_Witness ==
    /\ ret = "pk_violation"
    /\ \E id \in SessionIds :
          /\ watch_sessions[id] = "active"
          /\ Cardinality(ParticipantsOf(room_participants, id)) = 2
    /\ \E id \in SessionIds :
          /\ watch_sessions[id] = "absent"
          /\ ParticipantsOf(room_participants, id) = {}

C29_MatchCheckErrorSwallowed ==
    /\ [](\A i \in Reqs :
            (reqs[i].pc = "done" /\ reqs[i].match_err # "none")
            => /\ reqs[i].vote = "yes"
               /\ reqs[i].status = 200
               /\ reqs[i].is_match = FALSE
               /\ Rows(KeyOf(i)) # {})
    /\ [][\A i \in Reqs :
            (reqs[i].pc = "match" /\ reqs'[i].match_err # "none")
            => /\ reqs'[i].pc = "done"
               /\ session_votes' = session_votes
               /\ \E r \in Rows(KeyOf(i)) : r.vote \in vote_type]_vars

\* a request was answered after its match check failed, its yes vote is in
\* the ledger, and the item is in fact a match
C29_Witness ==
    \E i \in Reqs :
        /\ reqs[i].pc = "done" /\ reqs[i].match_err = "store_error"
        /\ reqs[i].status = 200 /\ ~reqs[i].is_match
        /\ \E r \in Rows(KeyOf(i)) : r.vote = "yes"
        /\ CheckMatch(reqs[i].session, reqs[i].media)

\* C28: a successful CastVote in one session leaves CheckMatch,
\* GetMatchesForSession and GetLikedMovies of every other session as they
\* were, whatever the user and the media item; and an item with one yes vote
\* in each of two sessions is a match in neither
C28_SessionsIsolated ==
    /\ [][\A t \in Triples, s2 \in SessionIds :
            (/\ ncast' = ncast + 1
             /\ s2 # t[1]
             /\ \E v \in vote_type : CastVote(t[1], t[2], t[3], v))
            => /\ \A m \in MediaIds :
                    CheckMatchOn(session_votes', s2, m) = CheckMatch(s2, m)
               /\ GetMatchesOn(session_votes', s2) = GetMatchesForSession(s2)
               /\ GetLikedMoviesOn(session_votes', s2) = GetLikedMovies(s2)]_vars
    /\ [](\A m \in MediaIds, s1, s2 \in SessionIds :
            (/\ s1 # s2
             /\ Cardinality(YesUsers(s1, m)) = 1
             /\ Cardinality(YesUsers(s2, m)) = 1)
            => /\ ~CheckMatch(s1, m) /\ ~CheckMatch(s2, m)
               /\ m \notin MatchIds(session_votes, s1)
               /\ m \notin MatchIds(session_votes, s2))

\* the same user has voted yes on the same item in two sessions; the item is
\* a match in the first session, and in the second, where it has that one yes
\* vote, it is liked but not a match
C28_Witness ==
    \E u \in UserIds, m \in MediaIds, s1, s2 \in SessionIds :
        /\ s1 # s2
        /\ u \in YesUsers(s1, m) /\ u \in YesUsers(s2, m)
        /\ CheckMatch(s1, m) /\ m \in MatchIds(session_votes, s1)
        /\ ~CheckMatch(s2, m) /\ GetMatchesForSession(s2) = <<>>
        /\ Len(GetLikedMovies(s2)) = 1

\* C30: a recommendation request that returns without error returns a list
\* value, which the handler encodes as a JSON array and never as null, also
\* when every candidate of the oracle was skipped
C30_SuccessIsAList ==
    \A i \in RecReqs :
        (rec[i].pc = "done" /\ rec[i].err = "none")
        => /\ rec[i].status = 200
           /\ ~JSONIsNull(rec[i].out)
====
